---- MODULE Spec2Model ----
(***************************************************************************)
(* faraday, package frdrpc: close recommendations and revenue reports.     *)
(*                                                                         *)
(* close_recommendations.go turns an rpc request into a                    *)
(* recommend.CloseRecommendationConfig (parseRecommendationRequest,        *)
(* parseOutlierRequest, parseThresholdRequest) and turns the               *)
(* recommend.Report that comes back into the rpc response (rpcResponse).   *)
(* The recommend engine, the outlier detector and the revenue attributor   *)
(* live in other packages of the repository; they are                     *)
(* modelled after sections 4.1-4.6 of the specification and marked so.     *)
(*                                                                         *)
(* Numbers.  A float64 metric value is a fixed-point number with Scale     *)
(* units per 1.0; a float32 is a multiple of Float32Step units, so that    *)
(* narrowing float64 -> float32 rounds and merges neighbouring values,    *)
(* and widening float32 -> float64 is exact.  A time.Duration is a signed  *)
(* integer of DurationBits bits counting ticks, TicksPerSecond to the      *)
(* second, so that  time.Second * time.Duration(x)  wraps like int64.      *)
(***************************************************************************)
EXTENDS Integers, Sequences, FiniteSets, TLC

VARIABLES
    pc,        \* position of the request: idle, parsed, fetched, reported,
               \* responded, failed, revenue
    mode,      \* "none", "outlier" or "threshold"
    req,       \* the rpc request as received
    recCfg,    \* the recommend.CloseRecommendationConfig built from it
    param,     \* the float64 multiplier or threshold handed to the engine
    fetch,     \* what the channel-snapshot collaborator did
    snapshot,  \* the channel insights the ChannelInsights callback returned
    report,    \* <<the recommend.Report>>, empty while there is none
    resp,      \* <<the CloseRecommendationsResponse>>, empty likewise
    err,       \* the error the request ended with, or NoError
    events,    \* revenue: the forwarding events of the history
    targets,   \* revenue: the requested target channels
    window,    \* revenue: [start, end) of the report
    processed, \* revenue: indices of the events attributed so far
    pairs      \* revenue: (target, peer) -> PairReport

vars == <<pc, mode, req, recCfg, param, fetch, snapshot, report, resp, err,
          events, targets, window, processed, pairs>>

recVars == <<mode, req, recCfg, param, fetch, snapshot, report, resp, err>>
revVars == <<events, targets, window, processed, pairs>>

None == "None"
NoError == "NoError"

-----------------------------------------------------------------------------
(* Bounds of the model.                                                    *)

MaxChannels == 3
Float32Step == 4
DurationBits == 16
TicksPerSecond == 10
MaxEvents == 3

-----------------------------------------------------------------------------
(* Numbers.                                                                *)

Scale == 2 * Float32Step

\* float32(v) of a float64 v: round to the nearest float32, ties to even.
Float32(v) ==
    LET q == v \div Float32Step
        r == v % Float32Step
    IN  IF 2 * r < Float32Step THEN q * Float32Step
        ELSE IF 2 * r > Float32Step THEN (q + 1) * Float32Step
        ELSE IF q % 2 = 0 THEN q * Float32Step
        ELSE (q + 1) * Float32Step

\* int32(n) of an int n: exact inside the int32 range, wrapped outside it.
Int32(n) ==
    IF n >= -2147483647 - 1 /\ n <= 2147483647 THEN n
    ELSE ((n + 2^31) % 2^32) - 2^31

\* A product kept in the width of time.Duration.
WrapDuration(n) ==
    ((n + 2^(DurationBits - 1)) % 2^DurationBits) - 2^(DurationBits - 1)

-----------------------------------------------------------------------------
(* The rpc messages.                                                       *)

\* enum CloseRecommendationRequest.Metric
CloseRecommendationRequest_UNKNOWN == 0
CloseRecommendationRequest_UPTIME == 1
CloseRecommendationRequest_REVENUE == 2
CloseRecommendationRequest_INCOMING_VOLUME == 3
CloseRecommendationRequest_OUTGOING_VOLUME == 4
CloseRecommendationRequest_TOTAL_VOLUME == 5

RequestMetrics ==
    CloseRecommendationRequest_UNKNOWN .. CloseRecommendationRequest_TOTAL_VOLUME

\* The least number of seconds whose product with time.Second leaves the
\* range of time.Duration.
OverflowSeconds == (2^DurationBits) \div TicksPerSecond + 1

\* message CloseRecommendationRequest: minimum_monitored is an int64 of
\* seconds, metric the enum above.
CloseRecommendationRequest ==
    [MinimumMonitored : {0, 500, OverflowSeconds}, Metric : RequestMetrics]

\* message OutlierRecommendationsRequest: outlier_multiplier is a float32
\* (-1.0, 0 for "not set", 0.5 and 1.5 here).
OutlierRecommendationsRequest ==
    [RecRequest : CloseRecommendationRequest,
     OutlierMultiplier : {k * Float32Step : k \in {-2, 0, 1, 3}}]

\* message ThresholdRecommendationsRequest: threshold_value is a float32
\* (1.0 and 10.0 here).
ThresholdRecommendationsRequest ==
    [RecRequest : CloseRecommendationRequest,
     ThresholdValue : {k * Float32Step : k \in {2, 20}}]

\* message ChannelInsight, without its chan_point: the channels a snapshot
\* is drawn from.  Seconds, millisatoshis and confirmations.
ChannelInsight ==
    { [MonitoredSeconds |-> 0,    UptimeSeconds |-> 0,
       VolumeIncoming |-> 0,  VolumeOutgoing |-> 0,  FeesEarned |-> 0,
       Confirmations |-> 0,  Private |-> FALSE],
      [MonitoredSeconds |-> 1000, UptimeSeconds |-> 900,
       VolumeIncoming |-> 40, VolumeOutgoing |-> 20, FeesEarned |-> 10,
       Confirmations |-> 1,  Private |-> FALSE],
      [MonitoredSeconds |-> 400,  UptimeSeconds |-> 400,
       VolumeIncoming |-> 0,  VolumeOutgoing |-> 20, FeesEarned |-> 20,
       Confirmations |-> 2,  Private |-> FALSE],
      [MonitoredSeconds |-> 1000, UptimeSeconds |-> 0,
       VolumeIncoming |-> 0,  VolumeOutgoing |-> 0,  FeesEarned |-> 0,
       Confirmations |-> 4,  Private |-> FALSE],
      [MonitoredSeconds |-> 1000, UptimeSeconds |-> 500,
       VolumeIncoming |-> 10, VolumeOutgoing |-> 10, FeesEarned |-> 5,
       Confirmations |-> 1,  Private |-> TRUE] }

\* A snapshot: channel i of the list has chan_point i.
Snapshots ==
    UNION { [1..n -> ChannelInsight] : n \in 0..MaxChannels }

-----------------------------------------------------------------------------
(* close_recommendations.go: the request parsers.                          *)

\* The zero value of recommend.Metric, which a config holds until a case
\* of the switch assigns one.
ZeroMetric == "ZeroMetric"

RecommendMetrics ==
    {"UptimeMetric", "RevenueMetric", "IncomingVolume", "OutgoingVolume",
     "Volume"}

\* recommend.DefaultOutlierMultiplier, 1.5 as a float64.
DefaultOutlierMultiplier == (3 * Scale) \div 2

\* float64(x) of a float32 x: every float32 is a float64.
Float64(x) == x

\* The switch over req.Metric: it has no default case.
MetricOf(metric) ==
    CASE metric = CloseRecommendationRequest_UPTIME -> "UptimeMetric"
      [] metric = CloseRecommendationRequest_REVENUE -> "RevenueMetric"
      [] metric = CloseRecommendationRequest_INCOMING_VOLUME -> "IncomingVolume"
      [] metric = CloseRecommendationRequest_OUTGOING_VOLUME -> "OutgoingVolume"
      [] metric = CloseRecommendationRequest_TOTAL_VOLUME -> "Volume"
      [] OTHER -> ZeroMetric

parseRecommendationRequest(r) ==
    [MinimumMonitored |-> WrapDuration(TicksPerSecond * r.MinimumMonitored),
     Metric |-> MetricOf(r.Metric)]

\* Returns the config and the multiplier.
parseOutlierRequest(r) ==
    <<parseRecommendationRequest(r.RecRequest),
      IF r.OutlierMultiplier # 0 THEN Float64(r.OutlierMultiplier)
      ELSE DefaultOutlierMultiplier>>

\* A parser that takes the threshold from the wrong field of the request.
parseThresholdRequestWrongField(r) ==
    <<parseRecommendationRequest(r.RecRequest),
      Float64(r.RecRequest.MinimumMonitored)>>

\* Returns the config and the threshold.
parseThresholdRequest(r) ==
    <<parseRecommendationRequest(r.RecRequest), Float64(r.ThresholdValue)>>

\* A callback that drops the error of channelInsights.
ChannelInsightsNoError(infos, e) == [infos |-> infos, err |-> NoError]

\* The ChannelInsights callback of the config: it returns what
\* channelInsights(ctx, cfg) returned, the list and the error.

ChannelInsights(infos, e) == [infos |-> infos, err |-> e]

-----------------------------------------------------------------------------
(* Package recommend, after sections 4.1-4.5 of the specification.         *)

Min(S) == CHOOSE x \in S : \A y \in S : x <= y

AgeInBlocks(c) == c.Confirmations

\* 4.1: a channel whose divisor is zero is excluded.
Excluded(c, metric) ==
    IF metric = "UptimeMetric" THEN c.MonitoredSeconds = 0
    ELSE AgeInBlocks(c) = 0

\* 4.1: the float64 metric value of a channel that is not excluded.
MetricValue(c, metric) ==
    CASE metric = "UptimeMetric" ->
            (c.UptimeSeconds * Scale) \div c.MonitoredSeconds
      [] metric = "RevenueMetric" ->
            (c.FeesEarned * Scale) \div AgeInBlocks(c)
      [] metric = "IncomingVolume" ->
            (c.VolumeIncoming * Scale) \div AgeInBlocks(c)
      [] metric = "OutgoingVolume" ->
            (c.VolumeOutgoing * Scale) \div AgeInBlocks(c)
      [] metric = "Volume" ->
            ((c.VolumeIncoming + c.VolumeOutgoing) * Scale) \div AgeInBlocks(c)

\* 4.2: not private, monitored for the configured minimum, not excluded.
IsEligible(c, cfg) ==
    /\ ~c.Private
    /\ TicksPerSecond * c.MonitoredSeconds >= cfg.MinimumMonitored
    /\ ~Excluded(c, cfg.Metric)

EligibleChannels(snap, cfg) ==
    {i \in DOMAIN snap : IsEligible(snap[i], cfg)}

\* The metric values of the eligible channels, ascending.
SortedValues(snap, cfg) ==
    LET el == EligibleChannels(snap, cfg)
        RECURSIVE List(_)
        List(S) == IF S = {} THEN <<>>
                   ELSE <<MetricValue(snap[Min(S)], cfg.Metric)>>
                        \o List(S \ {Min(S)})
    IN  SortSeq(List(el), LAMBDA a, b : a < b)

\* 4.3: four times the k-th quartile (k = 1 or 3) of the ascending
\* sequence s, estimated by linear interpolation at position k*(n-1)/4.
Quartile4(s, k) ==
    LET n == Len(s)
        pos == k * (n - 1)
        lo == pos \div 4 + 1
        hi == IF lo < n THEN lo + 1 ELSE lo
    IN  4 * s[lo] + (pos % 4) * (s[hi] - s[lo])

\* 4.3: v is strictly below  Q1 - multiplier * (Q3 - Q1).
LowerOutlier(v, s, multiplier) ==
    4 * Scale * v
        < Scale * Quartile4(s, 1) - multiplier * (Quartile4(s, 3) - Quartile4(s, 1))

\* 4.3, the bound on the other side:  Q3 + multiplier * (Q3 - Q1).
AboveUpperBound(v, s, multiplier) ==
    4 * Scale * v
        > Scale * Quartile4(s, 3) + multiplier * (Quartile4(s, 3) - Quartile4(s, 1))

\* 4.4: strictly below the threshold.
BelowThreshold(v, threshold) == v < threshold

\* 4.5, steps 2 to 5: the report of a snapshot.  Recommendations is the
\* map from chan_point to recommendation.
GetReport(snap, cfg, md, p) ==
    LET el == EligibleChannels(snap, cfg)
        s == SortedValues(snap, cfg)
        value(i) == MetricValue(snap[i], cfg.Metric)
    IN  [TotalChannels |-> Len(snap),
         ConsideredChannels |-> Cardinality(el),
         Recommendations |->
            [i \in el |->
                [Value |-> value(i),
                 RecommendClose |->
                    IF md = "outlier" THEN LowerOutlier(value(i), s, p)
                    ELSE BelowThreshold(value(i), p)]]]

-----------------------------------------------------------------------------
(* close_recommendations.go: rpcResponse.                                  *)

\* A less function that orders descending.
LessDescending(a, b) == a.Value > b.Value

\* The less function handed to sort.SliceStable.

Less(a, b) == a.Value < b.Value

\* sort.SliceStable: x goes before the first element it is less than.
InsertStable(t, x) ==
    LET later == {i \in 1..Len(t) : Less(x, t[i])}
        at == IF later = {} THEN Len(t) + 1 ELSE Min(later)
    IN  SubSeq(t, 1, at - 1) \o <<x>> \o SubSeq(t, at, Len(t))

RECURSIVE SliceStablePrefix(_, _)
SliceStablePrefix(s, k) ==
    IF k = 0 THEN <<>> ELSE InsertStable(SliceStablePrefix(s, k - 1), s[k])

SliceStable(s) == SliceStablePrefix(s, Len(s))

\* The orders in which a range over a Go map with keys S may visit them.
MapOrders(S) ==
    {f \in [1..Cardinality(S) -> S] :
        \A i, j \in 1..Cardinality(S) : i # j => f[i] # f[j]}

\* The recommendations appended while ranging over the map.
Appended(rep, order) ==
    [i \in 1..Len(order) |->
        [ChanPoint |-> order[i],
         Value |-> Float32(rep.Recommendations[order[i]].Value),
         RecommendClose |-> rep.Recommendations[order[i]].RecommendClose]]

\* rpcResponse, the range over report.Recommendations visiting the keys
\* in the given order.
rpcResponse(rep, order) ==
    [TotalChannels |-> Int32(rep.TotalChannels),
     ConsideredChannels |-> Int32(rep.ConsideredChannels),
     Recommendations |-> SliceStable(Appended(rep, order))]

-----------------------------------------------------------------------------
(* A recommendation request, from the rpc call to the response.            *)

NoConfig == [MinimumMonitored |-> 0, Metric |-> ZeroMetric]

Init ==
    /\ pc = "idle"
    /\ mode = "none"
    /\ req = None
    /\ recCfg = NoConfig
    /\ param = 0
    /\ fetch = "none"
    /\ snapshot = <<>>
    /\ report = <<>>
    /\ resp = <<>>
    /\ err = NoError
    /\ events = <<>>
    /\ targets = {}
    /\ window = <<0, 0>>
    /\ processed = {}
    /\ pairs = <<>>

\* rpc OutlierRecommendations: the request is parsed.
OutlierRecommendations ==
    /\ pc = "idle"
    /\ \E r \in OutlierRecommendationsRequest :
        /\ req' = r
        /\ recCfg' = parseOutlierRequest(r)[1]
        /\ param' = parseOutlierRequest(r)[2]
    /\ mode' = "outlier"
    /\ pc' = "parsed"
    /\ UNCHANGED <<fetch, snapshot, report, resp, err>>
    /\ UNCHANGED revVars

\* rpc ThresholdRecommendations: the request is parsed.
ThresholdRecommendations ==
    /\ pc = "idle"
    /\ \E r \in ThresholdRecommendationsRequest :
        /\ req' = r
        /\ recCfg' = parseThresholdRequest(r)[1]
        /\ param' = parseThresholdRequest(r)[2]
    /\ mode' = "threshold"
    /\ pc' = "parsed"
    /\ UNCHANGED <<fetch, snapshot, report, resp, err>>
    /\ UNCHANGED revVars

\* 4.5, step 1: the engine calls the ChannelInsights callback of the
\* config.  The collaborator answers with a snapshot, fails, or gives up
\* because the context was cancelled; an error ends the request.
FetchSnapshot ==
    /\ pc = "parsed"
    /\ \E outcome \in {"ok", "failed", "cancelled"}, infos \in Snapshots :
        /\ outcome # "ok" => infos = <<>>
        /\ fetch' = outcome
        /\ LET e == CASE outcome = "ok" -> NoError
                      [] outcome = "failed" -> "DataSourceUnavailable"
                      [] outcome = "cancelled" -> "Canceled"
               ret == ChannelInsights(infos, e)
           IN  IF ret.err # NoError
               THEN /\ pc' = "failed"
                    /\ err' = ret.err
                    /\ snapshot' = snapshot
               ELSE /\ pc' = "fetched"
                    /\ err' = err
                    /\ snapshot' = ret.infos
    /\ UNCHANGED <<mode, req, recCfg, param, report, resp>>
    /\ UNCHANGED revVars

\* 4.5, steps 2 to 6: the report is assembled.  A config whose metric is
\* none of the five selectors of 4.1 has no metric to compute.
GetRecommendations ==
    /\ pc = "fetched"
    /\ IF recCfg.Metric \in RecommendMetrics
       THEN /\ report' = <<GetReport(snapshot, recCfg, mode, param)>>
            /\ pc' = "reported"
            /\ err' = err
       ELSE /\ report' = report
            /\ pc' = "failed"
            /\ err' = "UnknownMetric"
    /\ UNCHANGED <<mode, req, recCfg, param, fetch, snapshot, resp>>
    /\ UNCHANGED revVars

\* The report is converted by rpcResponse and returned.
RpcResponse ==
    /\ pc = "reported"
    /\ \E order \in MapOrders(DOMAIN report[1].Recommendations) :
        resp' = <<rpcResponse(report[1], order)>>
    /\ pc' = "responded"
    /\ UNCHANGED <<mode, req, recCfg, param, fetch, snapshot, report, err>>
    /\ UNCHANGED revVars

Next ==
    \/ OutlierRecommendations
    \/ ThresholdRecommendations
    \/ FetchSnapshot
    \/ GetRecommendations
    \/ RpcResponse

Spec == Init /\ [][Next]_vars

-----------------------------------------------------------------------------
(* Properties of a recommendation request.                                 *)

Recs == resp[1].Recommendations

ReportRecs == report[1].Recommendations

Responded == resp # <<>>

Reported == report # <<>>

\* C1: the recommendations of a response are ordered ascending by value:
\* for any two positions i < j, value[i] <= value[j].
C1_SortedByValue ==
    Responded =>
        \A i, j \in 1..Len(Recs) : i < j => Recs[i].Value <= Recs[j].Value

\* A response with three recommendations, two of them with one float32
\* value for two different float64 values, one with a greater value.
C1_Witness ==
    /\ Responded
    /\ Len(Recs) >= 3
    /\ \E i, j \in 1..Len(Recs) :
        /\ i < j
        /\ Recs[i].Value = Recs[j].Value
        /\ ReportRecs[Recs[i].ChanPoint].Value
             # ReportRecs[Recs[j].ChanPoint].Value
    /\ \E i, j \in 1..Len(Recs) : Recs[i].Value < Recs[j].Value

\* C2: the order of a response is fixed by its input: recommendations
\* of equal value appear in the relative order their channels have in the
\* snapshot (channel i of the snapshot has chan_point i).
C2_TiesInInputOrder ==
    Responded =>
        \A i, j \in 1..Len(Recs) :
            (i < j /\ Recs[i].Value = Recs[j].Value)
                => Recs[i].ChanPoint < Recs[j].ChanPoint

\* C3: a request whose metric is none of UPTIME, REVENUE, INCOMING_VOLUME,
\* OUTGOING_VOLUME, TOTAL_VOLUME is rejected with a validation error, and
\* no parsed config holds the zero metric.
C3_UnknownMetricRejected ==
    pc # "idle" =>
        /\ recCfg.Metric # ZeroMetric
        /\ req.RecRequest.Metric \notin
              CloseRecommendationRequest_UPTIME ..
                  CloseRecommendationRequest_TOTAL_VOLUME
              => pc = "failed" /\ err = "InvalidArgument" /\ fetch = "none"

\* C4: an outlier request with a non-positive multiplier is rejected as
\* InvalidArgument before the snapshot is fetched, and the multiplier
\* parseOutlierRequest hands on is positive.
C4_MultiplierPositive ==
    mode = "outlier" =>
        /\ param > 0
        /\ req.OutlierMultiplier <= 0
              => pc = "failed" /\ err = "InvalidArgument" /\ fetch = "none"

\* The channel of the snapshot with chan_point cp is eligible for the
\* request: not private, monitored for at least minimum_monitored seconds,
\* its metric not excluded.
EligibleForRequest(cp) ==
    /\ cp \in DOMAIN snapshot
    /\ ~snapshot[cp].Private
    /\ snapshot[cp].MonitoredSeconds >= req.RecRequest.MinimumMonitored
    /\ ~Excluded(snapshot[cp], recCfg.Metric)

\* C5: considered_channels <= total_channels, the chan_points of the
\* recommendations are pairwise distinct, each belongs to an eligible
\* channel, and there are considered_channels of them.
C5_OnlyEligibleChannels ==
    Responded =>
        /\ resp[1].ConsideredChannels <= resp[1].TotalChannels
        /\ \A i, j \in 1..Len(Recs) :
              i # j => Recs[i].ChanPoint # Recs[j].ChanPoint
        /\ \A i \in 1..Len(Recs) : EligibleForRequest(Recs[i].ChanPoint)
        /\ Len(Recs) = resp[1].ConsideredChannels

\* C5, but for "monitored for at least minimum_monitored seconds": the
\* counts, the distinctness and the rest of the eligibility.
C5_CountsAndDistinct ==
    Responded =>
        /\ resp[1].ConsideredChannels <= resp[1].TotalChannels
        /\ \A i, j \in 1..Len(Recs) :
              i # j => Recs[i].ChanPoint # Recs[j].ChanPoint
        /\ \A i \in 1..Len(Recs) :
              /\ Recs[i].ChanPoint \in DOMAIN snapshot
              /\ ~snapshot[Recs[i].ChanPoint].Private
              /\ ~Excluded(snapshot[Recs[i].ChanPoint], recCfg.Metric)
        /\ Len(Recs) = resp[1].ConsideredChannels

\* C6: a failed or cancelled fetch ends the request in an error with no
\* report and no response; a report and a response exist only after a
\* successful fetch, and then with total_channels, considered_channels
\* and one recommendation per considered channel.
C6_NoPartialReport ==
    /\ fetch \in {"failed", "cancelled"} =>
          pc = "failed" /\ err # NoError /\ ~Reported /\ ~Responded
    /\ Reported =>
          /\ fetch = "ok"
          /\ report[1].TotalChannels = Len(snapshot)
          /\ report[1].ConsideredChannels
                = Cardinality(DOMAIN ReportRecs)
    /\ Responded =>
          /\ Reported
          /\ resp[1].TotalChannels = Len(snapshot)
          /\ resp[1].ConsideredChannels = Len(Recs)
          /\ {Recs[i].ChanPoint : i \in 1..Len(Recs)}
                = DOMAIN ReportRecs

\* The fetch failed or was cancelled and the request has ended.
C6_Witness ==
    /\ fetch \in {"failed", "cancelled"}
    /\ pc = "failed"
    /\ mode # "none"

\* C7: in threshold mode a recommendation has recommend_close exactly if
\* the metric value of its channel is strictly below threshold_value, in
\* the report and in the response.
C7_StrictlyBelowThreshold ==
    mode = "threshold" =>
        /\ Reported =>
              \A cp \in DOMAIN ReportRecs :
                  /\ cp \in DOMAIN snapshot
                  /\ ReportRecs[cp].RecommendClose
                        <=> MetricValue(snapshot[cp], recCfg.Metric)
                                < req.ThresholdValue
        /\ Responded =>
              \A i \in 1..Len(Recs) :
                  Recs[i].RecommendClose
                      <=> MetricValue(snapshot[Recs[i].ChanPoint], recCfg.Metric)
                              < req.ThresholdValue

\* A threshold response with a channel at the threshold, not flagged, and
\* a channel below it, flagged.
C7_Witness ==
    /\ mode = "threshold"
    /\ Responded
    /\ \E i, j \in 1..Len(Recs) :
        /\ MetricValue(snapshot[Recs[i].ChanPoint], recCfg.Metric)
              = req.ThresholdValue
        /\ ~Recs[i].RecommendClose
        /\ MetricValue(snapshot[Recs[j].ChanPoint], recCfg.Metric)
              < req.ThresholdValue
        /\ Recs[j].RecommendClose

\* The multipliers an outlier request can lead to.
Multipliers ==
    {parseOutlierRequest(r)[2] : r \in OutlierRecommendationsRequest}

\* The channels of the report a multiplier m flags.
FlaggedWith(m) ==
    {cp \in DOMAIN ReportRecs :
        LowerOutlier(ReportRecs[cp].Value,
                     SortedValues(snapshot, recCfg), m)}

Flagged ==
    {cp \in DOMAIN ReportRecs :
        ReportRecs[cp].RecommendClose}

\* C9, first half: a channel is flagged exactly if its value is below
\* Q1 - m * (Q3 - Q1), and a greater multiplier flags no channel that a
\* smaller one does not flag.
C9_Monotone ==
    (mode = "outlier" /\ Reported) =>
        /\ Flagged = FlaggedWith(param)
        /\ \A m1, m2 \in Multipliers :
              m1 < m2 => FlaggedWith(m2) \subseteq FlaggedWith(m1)

\* C9: the flagged set does not grow with the multiplier, and no channel
\* above the upper bound  Q3 + m * (Q3 - Q1)  is flagged.
C9_MonotoneAndLowSideOnly ==
    (mode = "outlier" /\ Reported) =>
        /\ Flagged = FlaggedWith(param)
        /\ \A m1, m2 \in Multipliers :
              m1 < m2 => FlaggedWith(m2) \subseteq FlaggedWith(m1)
        /\ \A cp \in Flagged :
              ~AboveUpperBound(ReportRecs[cp].Value,
                               SortedValues(snapshot, recCfg), param)

-----------------------------------------------------------------------------
(* The revenue report, after section 4.6 of the specification.             *)

Channels == {"X", "Y", "Z"}

\* The forwarding events a history is drawn from: amounts and fees in
\* millisatoshis, the fee of the second odd.
ForwardingEvents ==
    { [Incoming |-> "X", Outgoing |-> "Y", AmtIn |-> 1000, AmtOut |-> 990,
       Fee |-> 10, Timestamp |-> 1],
      [Incoming |-> "X", Outgoing |-> "Y", AmtIn |-> 500, AmtOut |-> 489,
       Fee |-> 11, Timestamp |-> 2],
      [Incoming |-> "Y", Outgoing |-> "X", AmtIn |-> 300, AmtOut |-> 296,
       Fee |-> 4, Timestamp |-> 1],
      [Incoming |-> "Z", Outgoing |-> "X", AmtIn |-> 100, AmtOut |-> 98,
       Fee |-> 2, Timestamp |-> 5] }

Histories ==
    UNION { [1..n -> ForwardingEvents] : n \in 0..MaxEvents }

\* message PairReport: four int64 sums, zero until something is added.
PairReport ==
    [AmountOutgoingMsat |-> 0, FeesOutgoingMsat |-> 0,
     AmountIncomingMsat |-> 0, FeesIncomingMsat |-> 0]

\* An empty chan_points means every channel that is a leg of an event.
TargetChannels ==
    IF targets # {} THEN targets
    ELSE {events[i].Incoming : i \in DOMAIN events}
            \cup {events[i].Outgoing : i \in DOMAIN events}

InWindow(e) == window[1] <= e.Timestamp /\ e.Timestamp < window[2]

\* The incoming leg of e: added to (target = incoming, peer = outgoing).
AddIncoming(pr, e) ==
    IF e.Incoming \in TargetChannels
    THEN [pr EXCEPT ![<<e.Incoming, e.Outgoing>>] =
            [@ EXCEPT !.AmountIncomingMsat = @ + e.AmtIn,
                      !.FeesIncomingMsat = @ + e.Fee \div 2]]
    ELSE pr

\* The outgoing leg of e: added to (target = outgoing, peer = incoming).
AddOutgoing(pr, e) ==
    IF e.Outgoing \in TargetChannels
    THEN [pr EXCEPT ![<<e.Outgoing, e.Incoming>>] =
            [@ EXCEPT !.AmountOutgoingMsat = @ + e.AmtOut,
                      !.FeesOutgoingMsat = @ + e.Fee \div 2]]
    ELSE pr

\* An attribution that keeps the last event of a pair instead of the sum.
AttributeLast(pr, e) ==
    IF ~InWindow(e) THEN pr
    ELSE LET a == IF e.Incoming \in TargetChannels
                  THEN [pr EXCEPT ![<<e.Incoming, e.Outgoing>>] =
                          [@ EXCEPT !.AmountIncomingMsat = e.AmtIn,
                                    !.FeesIncomingMsat = e.Fee \div 2]]
                  ELSE pr
         IN  AddOutgoing(a, e)

\* One event attributed to the pair reports.
Attribute(pr, e) ==
    IF InWindow(e) THEN AddOutgoing(AddIncoming(pr, e), e) ELSE pr

InitRevenue ==
    /\ pc = "revenue"
    /\ mode = "none"
    /\ req = None
    /\ recCfg = NoConfig
    /\ param = 0
    /\ fetch = "none"
    /\ snapshot = <<>>
    /\ report = <<>>
    /\ resp = <<>>
    /\ err = NoError
    /\ events \in Histories
    /\ targets \in {{}, {"X"}, {"X", "Y"}}
    /\ window \in {<<0, 2>>, <<0, 10>>}
    /\ processed = {}
    /\ pairs = [k \in Channels \X Channels |-> PairReport]

\* The next event is attributed; the history is walked in any order.
AttributeEvent ==
    /\ pc = "revenue"
    /\ \E i \in DOMAIN events \ processed :
        /\ pairs' = Attribute(pairs, events[i])
        /\ processed' = processed \cup {i}
    /\ UNCHANGED <<pc, events, targets, window>>
    /\ UNCHANGED recVars

NextRevenue == AttributeEvent

SpecRevenue == InitRevenue /\ [][NextRevenue]_vars

-----------------------------------------------------------------------------
(* Properties of a revenue report.                                         *)

\* What an event adds to a sum: an amount, or half its fee.
Share(e, k) ==
    CASE k = "AmtIn" -> e.AmtIn
      [] k = "AmtOut" -> e.AmtOut
      [] k = "HalfFee" -> e.Fee \div 2

\* The sum of the shares k of the events with the indices S.
RECURSIVE SumOver(_, _)
SumOver(S, k) ==
    IF S = {} THEN 0
    ELSE Share(events[Min(S)], k) + SumOver(S \ {Min(S)}, k)

\* The processed events in the window with incoming channel a and
\* outgoing channel b.
Forwards(a, b) ==
    {i \in processed :
        /\ InWindow(events[i])
        /\ events[i].Incoming = a
        /\ events[i].Outgoing = b}

\* C8: for a single event whose incoming and outgoing channels are both
\* targets, the incoming fees of (incoming, outgoing) and the outgoing
\* fees of (outgoing, incoming) add up to the fee of the event.
C8_FeeSplitAddsUp ==
    \A i \in DOMAIN events :
        ( /\ processed = {i}
          /\ InWindow(events[i])
          /\ events[i].Incoming \in TargetChannels
          /\ events[i].Outgoing \in TargetChannels )
        => pairs[<<events[i].Incoming, events[i].Outgoing>>].FeesIncomingMsat
             + pairs[<<events[i].Outgoing, events[i].Incoming>>].FeesOutgoingMsat
             = events[i].Fee

\* C8, for the events with an even fee only.
C8_EvenFeesAddUp ==
    \A i \in DOMAIN events :
        ( /\ processed = {i}
          /\ events[i].Fee % 2 = 0
          /\ InWindow(events[i])
          /\ events[i].Incoming \in TargetChannels
          /\ events[i].Outgoing \in TargetChannels )
        => pairs[<<events[i].Incoming, events[i].Outgoing>>].FeesIncomingMsat
             + pairs[<<events[i].Outgoing, events[i].Incoming>>].FeesOutgoingMsat
             = events[i].Fee

\* C10: in whatever order the events were attributed, every pair report
\* holds each attributed event of its pair exactly once: its sums are the
\* sums over the set of events attributed so far.
C10_OrderIndependent ==
    pc = "revenue" =>
        \A t \in Channels, p \in Channels :
            LET in == IF t \in TargetChannels THEN Forwards(t, p) ELSE {}
                out == IF t \in TargetChannels THEN Forwards(p, t) ELSE {}
            IN  /\ pairs[<<t, p>>].AmountIncomingMsat = SumOver(in, "AmtIn")
                /\ pairs[<<t, p>>].FeesIncomingMsat = SumOver(in, "HalfFee")
                /\ pairs[<<t, p>>].AmountOutgoingMsat = SumOver(out, "AmtOut")
                /\ pairs[<<t, p>>].FeesOutgoingMsat = SumOver(out, "HalfFee")

\* Three events attributed, two different ones of one pair among them,
\* and the report of that pair holding the amounts of both.
C10_Witness ==
    /\ pc = "revenue"
    /\ Cardinality(processed) = 3
    /\ \E i, j \in processed :
        /\ i # j
        /\ events[i] # events[j]
        /\ events[i].Incoming = events[j].Incoming
        /\ events[i].Outgoing = events[j].Outgoing
        /\ InWindow(events[i]) /\ InWindow(events[j])
        /\ events[i].Incoming \in TargetChannels
        /\ pairs[<<events[i].Incoming, events[i].Outgoing>>].AmountIncomingMsat
             >= events[i].AmtIn + events[j].AmtIn

====
